---- MODULE Spec2Model ----
(***************************************************************************)
(* packrattle: the combinator algebra of src/src/combiners.ts (chain, seq, *)
(* alt, optionalOr, check, not, repeat) and the match helpers of           *)
(* matcher.ts (kept in src/src/packrattle/parser_state.coffee, lines       *)
(* 292-399), driven by the trampoline engine of spec.md section 4.3.       *)
(*                                                                         *)
(* Values are written as token sequences: a string value "ab" is <<"ab">>, *)
(* a list [v1, v2] is <<"[">> \o v1 \o v2 \o <<"]">>, null is <<"null">>.  *)
(* The encoding is injective, so equality of encodings is structural       *)
(* equality of the values.                                                 *)
(***************************************************************************)
EXTENDS Integers, Sequences, FiniteSets, TLC

\* longest input text
MaxLen == 3
\* depth to which a description is unfolded (grammars may be cyclic)
DescDepth == 4

Atoms == {"a", "b"}

RECURSIVE SeqsUpTo(_)
SeqsUpTo(n) ==
    IF n = 0 THEN {<<>>}
    ELSE LET shorter == SeqsUpTo(n - 1)
         IN  shorter \cup {Append(s, a) : s \in {t \in shorter : Len(t) = n - 1}, a \in Atoms}

Inputs == SeqsUpTo(MaxLen)

----------------------------------------------------------------------------
(* The grammar: parser nodes by name.                                      *)

P0 == [kind |-> "", ch |-> <<>>, str |-> <<>>, tok |-> "", name |-> "", prio |-> 0,
       comb |-> "", def |-> <<>>, prim |-> TRUE,
       hasMin |-> FALSE, min |-> 0, hasMax |-> FALSE, max |-> 0]

Lit(s, tok) == [P0 EXCEPT !.kind = "lit", !.str = s, !.tok = tok]
Named(rec, name, prio) == [rec EXCEPT !.name = name, !.prio = prio]
Chain(p1, p2, c) == [P0 EXCEPT !.kind = "chain", !.ch = <<p1, p2>>, !.comb = c]
Seq2(p1, p2) == Chain(p1, p2, "pair")
SeqOf(ps) == [P0 EXCEPT !.kind = "seq", !.ch = ps]
Alt(ps) == [P0 EXCEPT !.kind = "alt", !.ch = ps]
OptionalOr(p, d, isPrim) == [P0 EXCEPT !.kind = "optionalOr", !.ch = <<p>>, !.def = d, !.prim = isPrim]
Optional(p) == OptionalOr(p, <<"undefined">>, TRUE)
Check(p) == [P0 EXCEPT !.kind = "check", !.ch = <<p>>]
Not(p) == [P0 EXCEPT !.kind = "not", !.ch = <<p>>]
Repeat(p) == [P0 EXCEPT !.kind = "repeat", !.ch = <<p>>]
WithMin(rec, m) == [rec EXCEPT !.hasMin = TRUE, !.min = m]
WithMax(rec, m) == [rec EXCEPT !.hasMax = TRUE, !.max = m]

G == [
    \* leaves
    A      |-> Lit(<<"a">>, "a"),
    B      |-> Lit(<<"b">>, "b"),
    AB     |-> Lit(<<"a", "b">>, "ab"),
    EPS    |-> Lit(<<>>, ""),
    BYik   |-> Named(Lit(<<"b">>, "b"), "yikes!", 1),
    \* optionalOr
    optA   |-> OptionalOr("A", <<"?">>, TRUE),
    optAo  |-> OptionalOr("A", <<"{}">>, FALSE),
    optAB  |-> Optional("AB"),
    \* chain
    cAB    |-> Chain("A", "B", "cat"),
    cOptB  |-> Seq2("optA", "B"),
    cEpsA  |-> Chain("EPS", "A", "pair"),
    cAEps  |-> Chain("A", "EPS", "snd"),
    cOptOpt |-> Seq2("optA", "optAB"),
    cAltA  |-> Seq2("altAAB", "A"),
    cRepB  |-> Seq2("rep", "B"),
    cObjB  |-> Seq2("optAo", "B"),
    \* alt
    altAAB |-> Alt(<<"A", "AB">>),
    altABA |-> Alt(<<"AB", "A">>),
    altOpt |-> Alt(<<"optA", "AB">>),
    altYik |-> Alt(<<"cOptB", "AB", "BYik">>),
    altCh  |-> Alt(<<"cAB", "cAEps">>),
    altObj |-> Alt(<<"optAo", "B">>),
    altRep |-> Alt(<<"repAlt2", "AB">>),
    altBY  |-> Alt(<<"B", "BYik">>),
    altBcAB |-> Alt(<<"B", "cAB">>),
    altcABB |-> Alt(<<"cAB", "B">>),
    altChY |-> Alt(<<"cAB", "BYik">>),
    altNot |-> Alt(<<"notB", "A">>),
    anyAB  |-> Alt(<<"A", "B">>),
    \* check, not
    chkA   |-> Check("A"),
    chkOpt |-> Check("optA"),
    chkAlt |-> Check("altAAB"),
    chkObj |-> Check("optAo"),
    notA   |-> Not("A"),
    notB   |-> Not("B"),
    notOpt |-> Not("optA"),
    notObj |-> Not("optAo"),
    notCh  |-> Not("cOptB"),
    notNot |-> Not("notA"),
    \* repeat
    rep    |-> Repeat("A"),
    rep1   |-> WithMin(Repeat("A"), 1),
    rep2   |-> WithMin(Repeat("A"), 2),
    rep12  |-> WithMax(WithMin(Repeat("A"), 1), 2),
    rep01  |-> WithMax(WithMin(Repeat("A"), 0), 1),
    rep00  |-> WithMax(WithMin(Repeat("A"), 0), 0),
    repAlt2 |-> WithMin(Repeat("altAAB"), 2),
    repAny |-> Repeat("anyAB"),
    repAny2 |-> WithMin(Repeat("anyAB"), 2),
    repAny12 |-> WithMax(WithMin(Repeat("anyAB"), 1), 2),
    repEps |-> Repeat("EPS"),
    lrP |-> Alt(<<"lrCh", "A">>),
    lrCh |-> Chain("lrP", "A", "pair"),
    repOpt |-> WithMin(Repeat("optA"), 1),
    repChk |-> Repeat("chkA"),
    \* seq
    seq0   |-> SeqOf(<<>>),
    seqAB  |-> SeqOf(<<"A", "B">>),
    seqOpt |-> SeqOf(<<"optA", "altABA">>),
    seq3   |-> SeqOf(<<"A", "chkA", "optA">>),
    seqRepB |-> SeqOf(<<"rep", "B">>),
    seqObjB |-> SeqOf(<<"optAo", "B">>),
    s2AB   |-> Seq2("A", "B"),
    s2Opt  |-> Seq2("optA", "altABA"),
    bothAB |-> Alt(<<"seqAB", "s2AB">>),
    bothOpt |-> Alt(<<"s2Opt", "seqOpt">>),
    bothRep |-> Alt(<<"seqRepB", "cRepB">>),
    bothObj |-> Alt(<<"cObjB", "seqObjB">>),
    altAA  |-> Alt(<<"A", "A">>),
    not3   |-> Not("notNot"),
    cObjN3 |-> Chain("optAo", "not3", "snd"),
    altAoA |-> Alt(<<"cAEps", "A", "optA">>),
    \* chain(check(P), P, (_, v) => v)
    chkNotA |-> Check("notA"),
    chkRep1 |-> Check("rep1"),
    chkcOptB |-> Check("cOptB"),
    chkAltObj |-> Check("altObj"),
    ccA    |-> Chain("chkA", "A", "snd"),
    ccAlt  |-> Chain("chkAlt", "altAAB", "snd"),
    ccOpt  |-> Chain("chkOpt", "optA", "snd"),
    ccObj  |-> Chain("chkObj", "optAo", "snd"),
    ccNot  |-> Chain("chkNotA", "notA", "snd"),
    ccRep  |-> Chain("chkRep1", "rep1", "snd"),
    ccCh   |-> Chain("chkcOptB", "cOptB", "snd"),
    ccAltObj |-> Chain("chkAltObj", "altObj", "snd")
]

Parsers == DOMAIN G
Roots == Parsers

----------------------------------------------------------------------------
(* Match model (matcher.ts).                                               *)

Span(start, end) == [start |-> start, end |-> end]

MatchSuccess(span, value) == [t |-> "S", span |-> span, value |-> value, message |-> <<>>, priority |-> 0]

\* priority is the field findBestFail reads (combiners.ts 133, 137): 0 unless a
\* naming operation tagged the Failure (spec.md 4.3.2)
MatchFailure(span, message) == [t |-> "F", span |-> span, value |-> <<>>, message |-> message, priority |-> 0]

WithPriority(f, prio) == [f EXCEPT !.priority = prio]

Schedule(parser, index, handler) == [t |-> "Sched", parser |-> parser, index |-> index, handler |-> handler]

\* a continuation: k names the closure, the other fields are what it closes over
\* (p, index: the parser activation that made it; n: a count or child number;
\* span, v: a span and a value or accumulator)
Handler(k, p, index, n, span, v) == [k |-> k, p |-> p, index |-> index, n |-> n, span |-> span, v |-> v]

NoSpan == Span(0, 0)

IsSuccess(m) == m.t = "S"
IsFailure(m) == m.t = "F"
IsSchedule(m) == m.t = "Sched"

mergeSpanSwapped(span1, span2) ==
    IF span1.start < span2.start \/ span1.end < span2.end
    THEN Span(span2.start, span1.end)
    ELSE Span(span1.start, span2.end)

mergeSpan(span1, span2) ==
    IF span1.start < span2.start \/ span1.end < span2.end
    THEN Span(span1.start, span2.end)
    ELSE Span(span2.start, span1.end)

success(start, end, value) == <<MatchSuccess(Span(start, end), value)>>

schedule(parser, index, handler) == <<Schedule(parser, index, handler)>>

\* defer's handler is the identity wrap: match => [ match ]
defer(parser, index, owner) == <<Schedule(parser, index, Handler("defer", owner, index, 0, NoSpan, <<>>))>>

\* mapMatch(match, f): `mapped` stands for f(match.span, match.value)
mapMatchAlways(match, mapped) ==
    mapped

mapMatch(match, mapped) ==
    IF IsFailure(match) THEN <<match>> ELSE mapped

----------------------------------------------------------------------------
(* Values.                                                                 *)

ListOf(elems) == <<"[">> \o elems \o <<"]">>
Null == <<"null">>

\* the combiners handed to chain: seq2's (r1, r2) => [ r1, r2 ], the test's
\* (a, b) => b + a, and (_, v) => v
combiner(c, r1, r2) ==
    CASE c = "pair" -> ListOf(r1 \o r2)
      [] c = "cat"  -> r2 \o r1
      [] c = "snd"  -> r2

\* the number of elements of an encoded list
RECURSIVE CountElems(_, _, _)
CountElems(v, i, depth) ==
    IF i > Len(v) THEN 0
    ELSE IF v[i] = "[" THEN (IF depth = 1 THEN 1 ELSE 0) + CountElems(v, i + 1, depth + 1)
    ELSE IF v[i] = "]" THEN CountElems(v, i + 1, depth - 1)
    ELSE (IF depth = 1 THEN 1 ELSE 0) + CountElems(v, i + 1, depth)

ListLen(v) == CountElems(v, 1, 0)

----------------------------------------------------------------------------
(* Parser attributes.                                                      *)

children(p) == G[p].ch

RepeatMin(p) == IF G[p].hasMin /\ G[p].min # 0 THEN G[p].min ELSE 0

\* max as written in the source: options.max || Infinity
RepeatMaxIsInfinity(p) == ~(G[p].hasMax /\ G[p].max # 0)

RepeatMaxFinite(p) == G[p].max

BelowMax(p, count) == RepeatMaxIsInfinity(p) \/ count < RepeatMaxFinite(p)

cacheable(p) ==
    CASE G[p].kind = "optionalOr" -> G[p].prim
      [] G[p].kind = "repeat" -> FALSE
      [] OTHER -> TRUE

RECURSIVE Join(_, _)
Join(list, sep) ==
    IF Len(list) = 0 THEN <<>>
    ELSE IF Len(list) = 1 THEN list[1]
    ELSE list[1] \o sep \o Join(Tail(list), sep)

quote(tok) == <<"'", tok, "'">>

\* a parser built without a describe option
DefaultDescribe(name, list) == <<name, "(">> \o Join(list, <<",">>) \o <<")">>

describe(p, list) ==
    CASE G[p].kind = "lit"        -> quote(G[p].tok)
      [] G[p].kind = "chain"      -> list[1] \o <<"then">> \o list[2]
      [] G[p].kind = "seq"        -> <<"seq(">> \o Join(list, <<",">>) \o <<")">>
      [] G[p].kind = "alt"        -> Join(list, <<"or">>)
      [] G[p].kind = "optionalOr" -> <<"optionalOr(">> \o list[1] \o <<",">> \o G[p].def \o <<")">>
      [] G[p].kind = "repeat"     ->
            Join(list, <<",">>) \o
            (IF RepeatMaxIsInfinity(p)
             THEN <<"{", ToString(RepeatMin(p)), "+}">>
             ELSE <<"{", ToString(RepeatMin(p)), ",", ToString(RepeatMaxFinite(p)), "}">>)
      [] OTHER -> DefaultDescribe(G[p].kind, list)

RECURSIVE DescriptionTo(_, _)
DescriptionTo(p, depth) ==
    IF G[p].name # "" THEN <<G[p].name>>
    ELSE IF depth = 0 THEN <<"...">>
    ELSE describe(p, [k \in 1..Len(children(p)) |-> DescriptionTo(children(p)[k], depth - 1)])

description(p) == DescriptionTo(p, DescDepth)

Expected(p) == <<"Expected">> \o description(p)

\* fail(index, parser): the message is "Expected " + parser.description
failFromStart(index, parser) == <<MatchFailure(Span(0, index), Expected(parser))>>

fail(index, parser) == <<MatchFailure(Span(index, index), Expected(parser))>>


----------------------------------------------------------------------------
(* Leaf matcher (matchString): Success over the matched text, or a Failure *)
(* at index carrying the priority its name was given.                      *)

matchString(p, text, index) ==
    LET str == G[p].str
        n   == Len(str)
    IN  IF index + n <= Len(text) /\ SubSeq(text, index + 1, index + n) = str
        THEN success(index, index + n, <<G[p].tok>>)
        ELSE <<WithPriority(MatchFailure(Span(index, index), Expected(p)), G[p].prio)>>

----------------------------------------------------------------------------
(* Combinators (combiners.ts): each matcher, and each handler it hands to  *)
(* a Schedule.                                                             *)

Reverse(list) == [k \in 1..Len(list) |-> list[Len(list) + 1 - k]]

\* chain
chainMatcher(p, index) ==
    schedule(children(p)[1], index, Handler("chain1", p, index, 0, NoSpan, <<>>))

chainOnFirst(h, match1) ==
    mapMatch(match1,
        schedule(children(h.p)[2], match1.span.end,
                 Handler("chain2", h.p, h.index, 0, match1.span, match1.value)))

chainOnSecondSwapped(h, match2) ==
    mapMatch(match2,
        <<MatchSuccess(mergeSpan(h.span, match2.span), combiner(G[h.p].comb, match2.value, h.v))>>)

chainOnSecond(h, match2) ==
    mapMatch(match2,
        <<MatchSuccess(mergeSpan(h.span, match2.span), combiner(G[h.p].comb, h.v, match2.value))>>)

\* seq
seqNext(p, i, start, index, rv) ==
    IF i >= Len(children(p)) THEN success(start, index, ListOf(rv))
    ELSE schedule(children(p)[i + 1], index, Handler("seq", p, start, i, NoSpan, rv))

seqMatcher(p, index) == seqNext(p, 0, index, index, <<>>)

seqHandlerPrepending(h, match) ==
    mapMatch(match, seqNext(h.p, h.n + 1, h.index, match.span.end, match.value \o h.v))

seqHandler(h, match) ==
    mapMatch(match, seqNext(h.p, h.n + 1, h.index, match.span.end, h.v \o match.value))

\* alt
\* (the handler's n, the number of the child it was made for, is history only:
\* nothing reads it but the properties below)
altMatcher(p, index) ==
    Reverse([k \in 1..Len(children(p)) |->
        Schedule(children(p)[k], index, Handler("alt", p, index, k, NoSpan, <<>>))])

BetterEarliest(f, best) ==
    f.priority > best.priority \/ (f.priority = best.priority /\ f.span.start < best.span.start)

Better(f, best) ==
    f.priority > best.priority \/ (f.priority = best.priority /\ f.span.start > best.span.start)

RECURSIVE BestFrom(_, _, _)
BestFrom(fails, k, best) ==
    IF k > Len(fails) THEN best
    ELSE BestFrom(fails, k + 1, IF Better(fails[k], best) THEN fails[k] ELSE best)

BestOf(fails) == BestFrom(fails, 1, fails[1])

findBestFailByStart(p, index, fails) ==
    LET best == BestOf(fails)
    IN  IF best.span.start = index
        THEN fail(index, p)
        ELSE <<best>>

findBestFail(p, index, fails) ==
    LET best == BestOf(fails)
    IN  IF best.span.start = index /\ best.priority = 0
        THEN fail(index, p)
        ELSE <<best>>

\* the handler shares count and fails with the other handlers of its activation
altHandlerFirstWins(h, match, count, fails) ==
    IF IsSuccess(match)
    THEN [out |-> IF count = 0 THEN <<match>> ELSE <<>>, count |-> count + 1, fails |-> fails]
    ELSE [out |-> <<>>, count |-> count + 1, fails |-> Append(fails, match)]

altHandler(h, match, count, fails) ==
    IF IsSuccess(match)
    THEN [out |-> <<match>>, count |-> count, fails |-> fails]
    ELSE LET fails2 == Append(fails, match)
             count2 == count + 1
         IN  [out   |-> IF count2 = Len(children(h.p)) /\ count2 = Len(fails2)
                        THEN findBestFail(h.p, h.index, fails2)
                        ELSE <<>>,
              count |-> count2,
              fails |-> fails2]

\* optionalOr
optionalOrMatcherNoDefault(p, index) ==
    defer(children(p)[1], index, p)

optionalOrMatcher(p, index) ==
    defer(children(p)[1], index, p) \o success(index, index, G[p].def)

deferHandler(h, match) == <<match>>

\* check
checkMatcher(p, index) ==
    schedule(children(p)[1], index, Handler("check", p, index, 0, NoSpan, <<>>))

checkHandlerConsuming(h, match) ==
    mapMatch(match, success(h.index, match.span.end, match.value))

checkHandler(h, match) ==
    mapMatch(match, success(h.index, h.index, match.value))

\* not
notMatcher(p, index) ==
    schedule(children(p)[1], index, Handler("not", p, index, 0, NoSpan, <<>>))

notHandler(h, match) ==
    IF IsSuccess(match) THEN fail(h.index, h.p) ELSE success(h.index, h.index, Null)

\* repeat
repeatNextAboveMin(p, index, count, accumulator, pos) ==
    (IF count > RepeatMin(p)
     THEN <<MatchSuccess(Span(index, pos), ListOf(accumulator))>> ELSE <<>>)
    \o
    (IF BelowMax(p, count)
     THEN <<Schedule(children(p)[1], pos, Handler("repeat", p, index, count, NoSpan, accumulator))>>
     ELSE <<>>)

repeatNext(p, index, count, accumulator, pos) ==
    (IF count >= RepeatMin(p)
     THEN <<MatchSuccess(Span(index, pos), ListOf(accumulator))>> ELSE <<>>)
    \o
    (IF BelowMax(p, count)
     THEN <<Schedule(children(p)[1], pos, Handler("repeat", p, index, count, NoSpan, accumulator))>>
     ELSE <<>>)

repeatMatcher(p, index) == repeatNext(p, index, 0, <<>>, index)

NoProgressInverted(h, match) ==
    h.k = "repeat" /\ IsSuccess(match) /\ match.span.start > match.span.end

NoProgress(h, match) ==
    h.k = "repeat" /\ IsSuccess(match) /\ match.span.start = match.span.end

repeatProcessAtMostMin(h, match) ==
    IF IsFailure(match)
    THEN IF h.n <= RepeatMin(h.p)
         THEN <<MatchFailure(Span(h.index, match.span.start), Expected(h.p))>>
         ELSE <<>>
    ELSE IF match.span.start = match.span.end
         THEN <<>>
         ELSE repeatNext(h.p, h.index, h.n + 1, h.v \o match.value, match.span.end)

repeatProcess(h, match) ==
    IF IsFailure(match)
    THEN IF h.n < RepeatMin(h.p)
         THEN <<MatchFailure(Span(h.index, match.span.start), Expected(h.p))>>
         ELSE <<>>
    ELSE IF match.span.start = match.span.end
         THEN <<>>
         ELSE repeatNext(h.p, h.index, h.n + 1, h.v \o match.value, match.span.end)

\* parser.matcher(stream, index)
matcher(p, text, index) ==
    CASE G[p].kind = "lit"        -> matchString(p, text, index)
      [] G[p].kind = "chain"      -> chainMatcher(p, index)
      [] G[p].kind = "seq"        -> seqMatcher(p, index)
      [] G[p].kind = "alt"        -> altMatcher(p, index)
      [] G[p].kind = "optionalOr" -> optionalOrMatcher(p, index)
      [] G[p].kind = "check"      -> checkMatcher(p, index)
      [] G[p].kind = "not"        -> notMatcher(p, index)
      [] G[p].kind = "repeat"     -> repeatMatcher(p, index)


----------------------------------------------------------------------------
(* Engine (trampoline): work queue, cache of (parser, index) entries with  *)
(* their waiters, best failure, root results.                              *)

VARIABLES
    text,         \* the input
    root,         \* the parser handed to execute
    pc,           \* "running", "done" (queue drained) or "aborted" (an error was thrown)
    queue,        \* pending jobs, next one first
    cache,        \* (parser, index) -> cache entry
    order,        \* the cache keys in order of creation
    altCount,     \* (alt, index) -> `count` of that activation
    altFails,     \* (alt, index) -> `fails` of that activation
    rootResults,  \* the Successes the root handler recorded, in order
    bestFailure,  \* the best Failure the root handler saw (at most one)
    error,        \* the error thrown, "" when none
    trace,        \* history: every matcher call and handler call with what it returned
    call          \* a call of a function of matcher.ts made on its own: arguments and result

vars == <<text, root, pc, queue, cache, order, altCount, altFails, rootResults, bestFailure, error, trace, call>>

NoCall == [fn |-> "", args |-> <<>>, result |-> <<>>]

Positions == 0..MaxLen
Keys == Parsers \X Positions
RootKey == <<"", 0>>

NoMatch == [t |-> "", span |-> NoSpan, value |-> <<>>, message |-> <<>>, priority |-> 0]
NoHandler == Handler("", "", 0, 0, NoSpan, <<>>)
RootHandler == Handler("root", "", 0, 0, NoSpan, <<>>)

RunJob(parser, index, cont, owner) ==
    [j |-> "run", parser |-> parser, index |-> index, match |-> NoMatch, cont |-> cont, owner |-> owner]
DeliverJob(match, cont, owner) ==
    [j |-> "deliver", parser |-> "", index |-> 0, match |-> match, cont |-> cont, owner |-> owner]

EmptyEntry == [active |-> FALSE, results |-> <<>>, waiters |-> <<>>, failure |-> <<>>]

MatcherEvent(p, index, out) ==
    [ev |-> "matcher", p |-> p, index |-> index, h |-> NoHandler, m |-> NoMatch, out |-> out]
HandlerEvent(h, m, out) ==
    [ev |-> "handler", p |-> h.p, index |-> h.index, h |-> h, m |-> m, out |-> out]
\* history: the entry `key` hands the match m to its k-th waiter
NotifyEvent(key, k, m) ==
    [ev |-> "notify", p |-> key[1], index |-> key[2],
     h |-> Handler("waiter", key[1], key[2], k, NoSpan, <<>>), m |-> m, out |-> <<>>]

\* the engine's state as one record, so that a step can be written as a fold
State == [q |-> queue, cache |-> cache, order |-> order, altCount |-> altCount,
          altFails |-> altFails, rootResults |-> rootResults, bestFailure |-> bestFailure,
          error |-> error, trace |-> trace]

\* push-front: the job pushed last is the one dequeued first
Push(st, job) == [st EXCEPT !.q = <<job>> \o @]

\* a Success is known to an entry by its (end, value)
Known(results, m) ==
    \E k \in 1..Len(results) : results[k].span.end = m.span.end /\ results[k].value = m.value

Notify(st, key, k, m, waiter) ==
    Push([st EXCEPT !.trace = Append(@, NotifyEvent(key, k, m))],
         DeliverJob(m, waiter.cont, waiter.owner))

RECURSIVE FanOut(_, _, _, _, _)
FanOut(st, key, waiters, k, m) ==
    IF k > Len(waiters) THEN st
    ELSE FanOut(Notify(st, key, k, m, waiters[k]), key, waiters, k + 1, m)

CacheUpdateKeepingAll(st, key, m) ==
    LET e == st.cache[key]
    IN  IF IsSuccess(m)
        THEN FanOut([st EXCEPT !.cache[key].results = Append(@, m)], key, e.waiters, 1, m)
        ELSE IF e.results = <<>> /\ e.failure = <<>>
             THEN [st EXCEPT !.cache[key].failure = <<m>>]
             ELSE st

\* section 4.3.1: a terminal match of the cached activation `key`
CacheUpdate(st, key, m) ==
    LET e == st.cache[key]
    IN  IF IsSuccess(m)
        THEN IF Known(e.results, m) THEN st
             ELSE FanOut([st EXCEPT !.cache[key].results = Append(@, m)], key, e.waiters, 1, m)
        ELSE IF e.results = <<>> /\ e.failure = <<>>
             THEN [st EXCEPT !.cache[key].failure = <<m>>]
             ELSE st

\* a terminal match on its way to the continuation `cont` of the activation `owner`
Emit(st, m, cont, owner) ==
    IF cont # <<>> THEN Push(st, DeliverJob(m, cont, owner))
    ELSE CacheUpdate(st, owner, m)

\* the items of one MatchResult, in list order
RECURSIVE ProcessResult(_, _, _, _, _)
ProcessResult(st, items, k, cont, owner) ==
    IF k > Len(items) THEN st
    ELSE LET it == items[k]
             st2 == IF IsSchedule(it)
                    THEN Push(st, RunJob(it.parser, it.index, <<it.handler>> \o cont, owner))
                    ELSE Emit(st, it, cont, owner)
         IN  ProcessResult(st2, items, k + 1, cont, owner)

\* section 4.3.2, for the whole parse
BetterFailure(f, best) ==
    best = <<>> \/ Better(f, best[1])

\* the root handler of execute
RootRecord(st, m) ==
    IF IsSuccess(m)
    THEN IF m.span.end <= Len(text) THEN [st EXCEPT !.rootResults = Append(@, m)] ELSE st
    ELSE IF BetterFailure(m, st.bestFailure) THEN [st EXCEPT !.bestFailure = <<m>>] ELSE st

\* handler(match): what it returns, and what it does to the state it closes over
Apply(st, h, m) ==
    CASE h.k = "root"   -> [st |-> RootRecord(st, m), out |-> <<>>]
      [] h.k = "alt"    ->
            LET key == <<h.p, h.index>>
                r   == altHandler(h, m, st.altCount[key], st.altFails[key])
            IN  [st  |-> [st EXCEPT !.altCount[key] = r.count, !.altFails[key] = r.fails],
                 out |-> r.out]
      [] h.k = "repeat" ->
            [st  |-> IF NoProgress(h, m) THEN [st EXCEPT !.error = "no progress"] ELSE st,
             out |-> repeatProcess(h, m)]
      [] h.k = "chain1" -> [st |-> st, out |-> chainOnFirst(h, m)]
      [] h.k = "chain2" -> [st |-> st, out |-> chainOnSecond(h, m)]
      [] h.k = "seq"    -> [st |-> st, out |-> seqHandler(h, m)]
      [] h.k = "defer"  -> [st |-> st, out |-> deferHandler(h, m)]
      [] h.k = "check"  -> [st |-> st, out |-> checkHandler(h, m)]
      [] h.k = "not"    -> [st |-> st, out |-> notHandler(h, m)]

\* run the matcher of (p, index); its results belong to `cont` of `owner`
Matched(st, p, index, cont, owner, out) ==
    ProcessResult([st EXCEPT !.trace = Append(@, MatcherEvent(p, index, out)),
                             !.altCount[<<p, index>>] = IF G[p].kind = "alt" THEN 0 ELSE @,
                             !.altFails[<<p, index>>] = IF G[p].kind = "alt" THEN <<>> ELSE @],
                  out, 1, cont, owner)

Invoke(st, p, index, cont, owner) ==
    Matched(st, p, index, cont, owner, matcher(p, text, index))

\* a late waiter, the n-th of the entry, is handed every Success there is
RECURSIVE Replay(_, _, _, _, _, _)
Replay(st, key, n, results, k, waiter) ==
    IF k > Len(results) THEN st
    ELSE Replay(Notify(st, key, n, results[k], waiter), key, n, results, k + 1, waiter)

Waiter(cont, owner) == [cont |-> cont, owner |-> owner, swept |-> FALSE]

\* processing a Schedule (P, i, h), section 4.3
ProcessSchedule(st, job) ==
    LET p   == job.parser
        key == <<p, job.index>>
        w   == Waiter(job.cont, job.owner)
    IN  IF ~cacheable(p) THEN Invoke(st, p, job.index, job.cont, job.owner)
        ELSE IF st.cache[key].active
        THEN Replay([st EXCEPT !.cache[key].waiters = Append(@, w)],
                    key, Len(st.cache[key].waiters) + 1, st.cache[key].results, 1, w)
        ELSE Invoke([st EXCEPT !.cache[key] = [EmptyEntry EXCEPT !.active = TRUE, !.waiters = <<w>>],
                               !.order = Append(@, key)],
                    p, job.index, <<>>, key)

\* a match reaches the first handler of a continuation
Handled(job, r) ==
    ProcessResult([r.st EXCEPT !.trace = Append(@, HandlerEvent(Head(job.cont), job.match, r.out))],
                  r.out, 1, Tail(job.cont), job.owner)

ProcessDelivery(st, job) ==
    Handled(job, Apply(st, Head(job.cont), job.match))

\* the final sweep: the failure of every entry without successes, to each of its
\* waiters that has not had it
Unswept(e) == {k \in 1..Len(e.waiters) : ~e.waiters[k].swept}

SweepDue(c, key) == c[key].active /\ c[key].results = <<>> /\ c[key].failure # <<>> /\ Unswept(c[key]) # {}

RECURSIVE SweepWaiters(_, _, _)
SweepWaiters(st, key, k) ==
    LET e == st.cache[key]
    IN  IF k > Len(e.waiters) THEN st
        ELSE IF e.waiters[k].swept THEN SweepWaiters(st, key, k + 1)
        ELSE SweepWaiters(
                Notify([st EXCEPT !.cache[key].waiters[k].swept = TRUE],
                       key, k, e.failure[1], e.waiters[k]),
                key, k + 1)

RECURSIVE SweepEntries(_, _)
SweepEntries(st, k) ==
    IF k > Len(st.order) THEN st
    ELSE SweepEntries(IF SweepDue(st.cache, st.order[k]) THEN SweepWaiters(st, st.order[k], 1) ELSE st,
                      k + 1)

----------------------------------------------------------------------------
(* The state machine.                                                      *)

Commit(st) ==
    /\ queue' = st.q
    /\ cache' = st.cache
    /\ order' = st.order
    /\ altCount' = st.altCount
    /\ altFails' = st.altFails
    /\ rootResults' = st.rootResults
    /\ bestFailure' = st.bestFailure
    /\ error' = st.error
    /\ trace' = st.trace
    /\ pc' = IF st.error # "" THEN "aborted" ELSE pc

\* execute(rootParser, input): one root Schedule at index 0
Init ==
    /\ text \in Inputs
    /\ root \in Roots
    /\ pc = "running"
    /\ queue = <<RunJob(root, 0, <<RootHandler>>, RootKey)>>
    /\ cache = [key \in Keys |-> EmptyEntry]
    /\ order = <<>>
    /\ altCount = [key \in Keys |-> 0]
    /\ altFails = [key \in Keys |-> <<>>]
    /\ rootResults = <<>>
    /\ bestFailure = <<>>
    /\ error = ""
    /\ trace = <<>>
    /\ call = NoCall

\* the drain loop pops a Schedule
Activate ==
    /\ pc = "running"
    /\ queue # <<>>
    /\ Head(queue).j = "run"
    /\ Commit(ProcessSchedule([State EXCEPT !.q = Tail(queue)], Head(queue)))
    /\ UNCHANGED <<text, root, call>>

\* the drain loop pops a match on its way to a handler
Deliver ==
    /\ pc = "running"
    /\ queue # <<>>
    /\ Head(queue).j = "deliver"
    /\ Commit(ProcessDelivery([State EXCEPT !.q = Tail(queue)], Head(queue)))
    /\ UNCHANGED <<text, root, call>>

\* the queue drained with failures still owed to waiters
Sweep ==
    /\ pc = "running"
    /\ queue = <<>>
    /\ \E key \in Keys : SweepDue(cache, key)
    /\ Commit(SweepEntries(State, 1))
    /\ UNCHANGED <<text, root, call>>

\* the queue drained and nothing is owed: execute returns
Finish ==
    /\ pc = "running"
    /\ queue = <<>>
    /\ ~\E key \in Keys : SweepDue(cache, key)
    /\ pc' = "done"
    /\ UNCHANGED <<text, root, queue, cache, order, altCount, altFails, rootResults, bestFailure, error, trace, call>>

Next == Activate \/ Deliver \/ Sweep \/ Finish

Spec == Init /\ [][Next]_vars

\* the roots that call themselves at their own start position
LeftRecursive == {"lrP"}

LeftRecursiveInit == Init /\ root \in LeftRecursive

\* execute runs its drain loop until the queue is empty
LeftRecursiveSpec == LeftRecursiveInit /\ [][Next]_vars /\ WF_vars(Next)

----------------------------------------------------------------------------
(* The same engine with the pending work taken in any order: a step takes  *)
(* any job of the queue, not only the first. The history is not kept.      *)

Without(q, k) == SubSeq(q, 1, k - 1) \o SubSeq(q, k + 1, Len(q))

Forget(st) == [st EXCEPT !.trace = <<>>]

StartState ==
    [q |-> <<RunJob(root, 0, <<RootHandler>>, RootKey)>>,
     cache |-> [key \in Keys |-> EmptyEntry], order |-> <<>>,
     altCount |-> [key \in Keys |-> 0], altFails |-> [key \in Keys |-> <<>>],
     rootResults |-> <<>>, bestFailure |-> <<>>, error |-> "", trace |-> <<>>]

ActivateAny ==
    /\ pc = "running"
    /\ \E k \in 1..Len(queue) :
          /\ queue[k].j = "run"
          /\ Commit(Forget(ProcessSchedule([State EXCEPT !.q = Without(queue, k)], queue[k])))
    /\ UNCHANGED <<text, root, call>>

DeliverAny ==
    /\ pc = "running"
    /\ \E k \in 1..Len(queue) :
          /\ queue[k].j = "deliver"
          /\ Commit(Forget(ProcessDelivery([State EXCEPT !.q = Without(queue, k)], queue[k])))
    /\ UNCHANGED <<text, root, call>>

SweepAny ==
    /\ pc = "running"
    /\ queue = <<>>
    /\ \E key \in Keys : SweepDue(cache, key)
    /\ Commit(Forget(SweepEntries(State, 1)))
    /\ UNCHANGED <<text, root, call>>

AnyOrderNext == ActivateAny \/ DeliverAny \/ SweepAny \/ Finish

\* the grammars and inputs run in any order: alternations of strings, of
\* optionals, of chains and of a negation, parsers over them, a repeat and the
\* left-recursive grammar
AnyOrderLen == 2
AnyOrderRoots ==
    {"altAAB", "altOpt", "altCh", "altObj", "altNot", "altBcAB", "anyAB",
     "notCh", "notObj", "cAltA", "rep1", "ccAlt", "lrP"}

AnyOrderInit == Init /\ root \in AnyOrderRoots /\ Len(text) <= AnyOrderLen

AnyOrderSpec == AnyOrderInit /\ [][AnyOrderNext]_vars

\* the run that always takes the first job of the queue, from st to its end
RECURSIVE InOrder(_)
InOrder(st) ==
    IF st.error # "" THEN st
    ELSE IF st.q # <<>>
    THEN InOrder(IF Head(st.q).j = "run"
                 THEN ProcessSchedule([st EXCEPT !.q = Tail(st.q)], Head(st.q))
                 ELSE ProcessDelivery([st EXCEPT !.q = Tail(st.q)], Head(st.q)))
    ELSE IF \E key \in Keys : SweepDue(st.cache, key)
    THEN InOrder(SweepEntries(st, 1))
    ELSE st

----------------------------------------------------------------------------
(* mergeSpan called on its own, on every pair of spans of the positions.   *)

Spans == {Span(a, b) : <<a, b>> \in {x \in Positions \X Positions : x[1] <= x[2]}}

\* no parse is running
Idle ==
    /\ text = <<>>
    /\ root = ""
    /\ pc = "idle"
    /\ queue = <<>>
    /\ cache = [key \in Keys |-> EmptyEntry]
    /\ order = <<>>
    /\ altCount = [key \in Keys |-> 0]
    /\ altFails = [key \in Keys |-> <<>>]
    /\ rootResults = <<>>
    /\ bestFailure = <<>>
    /\ error = ""
    /\ trace = <<>>

MergeInit ==
    /\ Idle
    /\ \E s1 \in Spans : \E s2 \in Spans :
          call = [fn |-> "mergeSpan", args |-> <<s1, s2>>, result |-> <<>>]

CallMergeSpan ==
    /\ call.fn = "mergeSpan"
    /\ call.result = <<>>
    /\ call' = [call EXCEPT !.result = <<mergeSpan(call.args[1], call.args[2])>>]
    /\ UNCHANGED <<text, root, pc, queue, cache, order, altCount, altFails, rootResults,
                   bestFailure, error, trace>>

MergeNext == CallMergeSpan

MergeSpec == MergeInit /\ [][MergeNext]_vars

----------------------------------------------------------------------------
(* ParserState on its own: a state is constructed over a short text with   *)
(* linefeeds, then advance and flip are called on what the last call       *)
(* returned.  An object is the function from its property names to their   *)
(* values; a call's result is <<returned value, receiver after the call>>, *)
(* and trace keeps the calls that came before.                             *)

\* longest text of a ParserState
TextLen == 2
\* largest n handed to advance
MaxAdvance == 2
\* calls made on one ParserState and its descendants
MaxCalls == 3

Undefined == "undefined"

Chars == {"a", "\n"}

RECURSIVE CharSeqs(_)
CharSeqs(n) ==
    IF n = 0 THEN {<<>>}
    ELSE LET shorter == CharSeqs(n - 1)
         IN  shorter \cup {Append(s, c) : s \in {t \in shorter : Len(t) = n - 1}, c \in Chars}

\* @text[pos], positions counted from 0
charAt(txt, pos) == IF pos + 1 \in DOMAIN txt THEN txt[pos + 1] ELSE Undefined

\* constructor: (@text, @pos=0, @end), end defaulting to the text's length
ParserState(txt, pos) ==
    [text |-> txt, pos |-> pos, end |-> Len(txt), lineno |-> 0, xpos |-> 0,
     trampoline |-> "Trampoline", depth |-> 0, debugger |-> Null,
     stateName |-> Null, previousStateName |-> Null]

\* copy: every property of the receiver, then the changes, on a new object
copy(this, changes) ==
    [k \in (DOMAIN this) \cup {"prototype"} \cup (DOMAIN changes) |->
        IF k \in DOMAIN changes THEN changes[k]
        ELSE IF k \in DOMAIN this THEN this[k]
        ELSE Undefined]

\* the while loop of advance: <<pos, lineno, xpos>> once pos reaches stop
RECURSIVE advanceWhile(_, _, _, _, _)
advanceWhile(txt, pos, lineno, xpos, stop) ==
    IF pos < stop
    THEN IF charAt(txt, pos) = "\n"
         THEN advanceWhile(txt, pos + 1, lineno + 1, 0, stop)
         ELSE advanceWhile(txt, pos + 1, lineno, xpos + 1, stop)
    ELSE <<pos, lineno, xpos>>

advanceOldposAfter(this, n) ==
    LET at == advanceWhile(this.text, this.pos, this.lineno, this.xpos, this.pos + n)
    IN  <<copy(this, [oldpos |-> <<at[1], at[3], at[2]>>,
                      pos |-> at[1], lineno |-> at[2], xpos |-> at[3]]),
          this>>

\* advance assigns only to its locals: the receiver is as it was
advance(this, n) ==
    LET at == advanceWhile(this.text, this.pos, this.lineno, this.xpos, this.pos + n)
    IN  <<copy(this, [oldpos |-> <<this.pos, this.xpos, this.lineno>>,
                      pos |-> at[1], lineno |-> at[2], xpos |-> at[3]]),
          this>>

flip(this) ==
    LET old == IF "oldpos" \in DOMAIN this
               THEN this.oldpos
               ELSE <<this.pos, this.xpos, this.lineno>>
    IN  <<copy(this, [pos |-> old[1], xpos |-> old[2], lineno |-> old[3],
                      endpos |-> this.pos, endxpos |-> this.xpos,
                      endlineno |-> this.lineno]),
          this>>

ParserStateInit ==
    /\ Idle
    /\ \E txt \in CharSeqs(TextLen) : \E pos \in 0..Len(txt) :
          call = [fn |-> "ParserState", args |-> <<txt, pos>>, result |-> <<>>]

Construct ==
    /\ call.fn = "ParserState"
    /\ call.result = <<>>
    /\ call' = [call EXCEPT !.result = <<ParserState(call.args[1], call.args[2])>>]
    /\ UNCHANGED <<text, root, pc, queue, cache, order, altCount, altFails, rootResults,
                   bestFailure, error, trace>>

\* the object the next method is called on: what the last call returned
Receiver == call.result[1]

CallAdvance(n) ==
    /\ call.fn \in {"ParserState", "advance", "flip"}
    /\ call.result # <<>>
    /\ Len(trace) < MaxCalls
    /\ call' = [fn |-> "advance", args |-> <<Receiver, n>>, result |-> advance(Receiver, n)]
    /\ trace' = Append(trace, call)
    /\ UNCHANGED <<text, root, pc, queue, cache, order, altCount, altFails, rootResults,
                   bestFailure, error>>

CallFlip ==
    /\ call.fn \in {"ParserState", "advance", "flip"}
    /\ call.result # <<>>
    /\ Len(trace) < MaxCalls
    /\ call' = [fn |-> "flip", args |-> <<Receiver>>, result |-> flip(Receiver)]
    /\ trace' = Append(trace, call)
    /\ UNCHANGED <<text, root, pc, queue, cache, order, altCount, altFails, rootResults,
                   bestFailure, error>>

ParserStateNext ==
    \/ Construct
    \/ \E n \in 0..MaxAdvance : CallAdvance(n)
    \/ CallFlip

ParserStateSpec == ParserStateInit /\ [][ParserStateNext]_vars

\* what execute returns: the first root Success, else the best Failure
ExecuteResult ==
    IF rootResults # <<>> THEN rootResults[1]
    ELSE IF bestFailure # <<>> THEN bestFailure[1]
    ELSE NoMatch


----------------------------------------------------------------------------
(* History helpers.                                                        *)

Events == 1..Len(trace)
HandlerEvents(k) == {e \in Events : trace[e].ev = "handler" /\ trace[e].h.k = k}
MatcherEvents(kind) == {e \in Events : trace[e].ev = "matcher" /\ G[trace[e].p].kind = kind}

\* the terminal matches the activation (p, index) has produced
Emitted(p, index) ==
    UNION {{trace[e].out[k] : k \in {j \in 1..Len(trace[e].out) : ~IsSchedule(trace[e].out[j])}} :
              e \in {x \in Events : trace[x].p = p /\ trace[x].index = index}}

Results(key) == {cache[key].results[k] : k \in 1..Len(cache[key].results)}

ChainKeys == {key \in Keys : G[key[1]].kind = "chain" /\ cache[key].active}

----------------------------------------------------------------------------
(* C1: chain(p1, p2, combiner) at i schedules p2 only at the end of a p1   *)
(* Success; for every pair (p1 Success (span1, v1), p2 Success (span2, v2) *)
(* at span1.end) it emits exactly one Success, with value combiner(v1, v2) *)
(* and span (i, span2.end), zero-width children included.                  *)
C1_ChainSchedulesAndCombines ==
    /\ \A e \in MatcherEvents("chain") :
          LET ev == trace[e]
          IN  /\ Len(ev.out) = 1 /\ IsSchedule(ev.out[1])
              /\ ev.out[1].parser = children(ev.p)[1] /\ ev.out[1].index = ev.index
    /\ \A e \in HandlerEvents("chain1") :
          LET ev == trace[e]
          IN  IF IsSuccess(ev.m)
              THEN /\ Len(ev.out) = 1 /\ IsSchedule(ev.out[1])
                   /\ ev.out[1].parser = children(ev.p)[2]
                   /\ ev.out[1].index = ev.m.span.end
              ELSE \A k \in 1..Len(ev.out) : ~IsSchedule(ev.out[k])
    /\ \A e \in HandlerEvents("chain2") :
          LET ev == trace[e]
          IN  IsSuccess(ev.m) =>
                /\ ev.m.span.start = ev.h.span.end
                /\ Len(ev.out) = 1 /\ IsSuccess(ev.out[1])
                /\ ev.out[1].value = combiner(G[ev.p].comb, ev.h.v, ev.m.value)
                /\ ev.out[1].span = Span(ev.index, ev.m.span.end)
    /\ pc = "done" =>
          \A key \in ChainKeys :
             LET c  == key[1]
                 i  == key[2]
                 p1 == children(c)[1]
                 p2 == children(c)[2]
             IN  (cacheable(p1) /\ cacheable(p2)) =>
                   \A s1 \in Results(<<p1, i>>) : \A s2 \in Results(<<p2, s1.span.end>>) :
                      /\ Cardinality({e \in HandlerEvents("chain2") :
                               /\ trace[e].p = c /\ trace[e].index = i
                               /\ trace[e].h.span = s1.span /\ trace[e].h.v = s1.value
                               /\ trace[e].m = s2}) = 1
                      /\ MatchSuccess(Span(i, s2.span.end), combiner(G[c].comb, s1.value, s2.value))
                            \in Results(key)

\* a chain whose first child matched zero width and whose second did not has combined
C1_Witness ==
    /\ pc = "done"
    /\ \E e \in HandlerEvents("chain2") :
          /\ IsSuccess(trace[e].m)
          /\ trace[e].h.span.start = trace[e].h.span.end
          /\ trace[e].m.span.end > trace[e].m.span.start
          /\ trace[e].out[1] \in Results(<<trace[e].p, trace[e].index>>)


----------------------------------------------------------------------------
AltSuccessEvents(p, index) ==
    {e \in HandlerEvents("alt") : trace[e].p = p /\ trace[e].index = index /\ IsSuccess(trace[e].m)}
AltFailureEvents(p, index) ==
    {e \in HandlerEvents("alt") : trace[e].p = p /\ trace[e].index = index /\ IsFailure(trace[e].m)}
AltKeys == {key \in Keys : G[key[1]].kind = "alt" /\ cache[key].active}

\* every alternative is scheduled at the alt's own index
AltSchedulesAll ==
    \A e \in MatcherEvents("alt") :
       LET ev == trace[e]
           n  == Len(children(ev.p))
       IN  /\ Len(ev.out) = n
           /\ \A k \in 1..n :
                 /\ IsSchedule(ev.out[k]) /\ ev.out[k].index = ev.index
                 /\ ev.out[k].parser = children(ev.p)[ev.out[k].handler.n]
           /\ {ev.out[k].handler.n : k \in 1..n} = 1..n

\* the Successes an alt passes on come in listing order of the alternatives
AltOrderReflectsListing ==
    \A key \in AltKeys : \A e1, e2 \in AltSuccessEvents(key[1], key[2]) :
       e1 < e2 => trace[e1].h.n <= trace[e2].h.n

\* execute on an alt returns a Success of the earliest-listed alternative that succeeded
AltExecuteFirstListed ==
    (pc = "done" /\ G[root].kind = "alt" /\ AltSuccessEvents(root, 0) # {}) =>
        \E e0 \in AltSuccessEvents(root, 0) :
           /\ trace[e0].m = ExecuteResult
           /\ \A e \in AltSuccessEvents(root, 0) : trace[e0].h.n <= trace[e].h.n

(* C2: alt(p1..pn) at i schedules all alternatives at i, first-listed      *)
(* first: when two alternatives succeed, execute returns the Success of    *)
(* the earlier-listed one, and the collected matches are in listing order. *)
C2_AltFirstListedWins ==
    AltSchedulesAll /\ AltOrderReflectsListing /\ AltExecuteFirstListed


----------------------------------------------------------------------------
\* the handler calls of an alt activation that returned its summary Failure
AltSummaries(p, index) ==
    {e \in AltFailureEvents(p, index) : trace[e].out # <<>>}

AltChildFailed(p, index, k) ==
    /\ \E e \in AltFailureEvents(p, index) : trace[e].h.n = k
    /\ ~\E e \in AltSuccessEvents(p, index) : trace[e].h.n = k

(* C3: an alt activation emits a summarized Failure if and only if every   *)
(* one of its alternatives has failed and none delivered a Success, and    *)
(* then exactly one, also when an alternative delivers several matches.    *)
C3_AltFailsIffAllFail ==
    pc = "done" =>
       \A key \in AltKeys :
          LET p == key[1]
              i == key[2]
              allFailed == \A k \in 1..Len(children(p)) : AltChildFailed(p, i, k)
          IN  /\ (AltSummaries(p, i) # {}) <=> allFailed
              /\ Cardinality(AltSummaries(p, i)) <= 1

IsBest(best, fails) ==
    /\ \E k \in 1..Len(fails) : fails[k] = best
    /\ \A k \in 1..Len(fails) :
          /\ fails[k].priority <= best.priority
          /\ fails[k].priority = best.priority => fails[k].span.start <= best.span.start

(* C4: the failure alt picks from its children's failures has the highest  *)
(* priority and, among those of that priority, the latest span.start; a    *)
(* priority-1 failure outranks priority-0 failures at the same start.      *)
C4_BestFailRanking ==
    \A key \in AltKeys :
       altFails[key] # <<>> => IsBest(BestOf(altFails[key]), altFails[key])

\* an alt has summarized, ranking a priority-1 failure over a priority-0 failure
\* at the same start
C4_Witness ==
    /\ pc = "done"
    /\ \E key \in AltKeys :
          LET fails == altFails[key]
              best  == BestOf(fails)
          IN  /\ AltSummaries(key[1], key[2]) # {}
              /\ best.priority = 1
              /\ \E k \in 1..Len(fails) :
                    fails[k].priority = 0 /\ fails[k].span.start = best.span.start

\* the fails of an alt activation when it summarized: the first n it collected
FailsAtSummary(key) == SubSeq(altFails[key], 1, Len(children(key[1])))

(* C5: when the winning failure of an alt at i has span.start = i and      *)
(* priority 0, the alt reports a generic Failure at i, "Expected " + its   *)
(* own description; otherwise it reports the winning failure unchanged.    *)
C5_AltGenericFailure ==
    \A key \in AltKeys : \A e \in AltSummaries(key[1], key[2]) :
       LET p     == key[1]
           i     == key[2]
           fails == FailsAtSummary(key)
           out   == trace[e].out
       IN  /\ Len(out) = 1 /\ IsFailure(out[1])
           /\ \E best \in {fails[k] : k \in 1..Len(fails)} :
                 /\ IsBest(best, fails)
                 /\ IF best.span.start = i /\ best.priority = 0
                    THEN out[1] = MatchFailure(Span(i, i), <<"Expected">> \o description(p))
                    ELSE out[1] = best

\* an alt reported a winning failure of priority 1 at its own start unchanged
C5_Witness ==
    /\ pc = "done"
    /\ \E key \in AltKeys : \E e \in AltSummaries(key[1], key[2]) :
          /\ trace[e].out[1].priority = 1
          /\ trace[e].out[1].span.start = key[2]
          /\ ExecuteResult = trace[e].out[1]


----------------------------------------------------------------------------
\* the activation (p, index) has produced a Success
Succeeds(p, index) == \E m \in Emitted(p, index) : IsSuccess(m)

Activations(kind) == {<<trace[e].p, trace[e].index>> : e \in MatcherEvents(kind)}

\* the positions at which a chain or seq activation has scheduled its second child
SecondChildAt(p, index) ==
    {trace[e].out[1].index :
        e \in {x \in HandlerEvents("chain1") \cup {y \in HandlerEvents("seq") : trace[y].h.n = 0} :
                  trace[x].p = p /\ trace[x].index = index /\ IsSuccess(trace[x].m)}}

(* C6: optionalOr(P, default) at i always emits Success (i, i) with the    *)
(* default; if P succeeds at i with end e it also produces a Success       *)
(* ending at e; a following parser of a sequence is tried after each of    *)
(* those end positions and after no other.                                 *)
C6_OptionalBothBranches ==
    /\ \A e \in MatcherEvents("optionalOr") :
          \E k \in 1..Len(trace[e].out) :
             trace[e].out[k] = MatchSuccess(Span(trace[e].index, trace[e].index), G[trace[e].p].def)
    /\ pc = "done" =>
          /\ \A key \in Activations("optionalOr") :
                LET o == key[1]
                    i == key[2]
                IN  /\ \A s \in Results(<<children(o)[1], i>>) : s \in Emitted(o, i)
                    /\ cacheable(o) =>
                          Results(key) = {MatchSuccess(Span(i, i), G[o].def)}
                                            \cup Results(<<children(o)[1], i>>)
          /\ \A key \in Activations("chain") \cup Activations("seq") :
                LET c == key[1]
                    i == key[2]
                IN  (Len(children(c)) >= 2 /\ G[children(c)[1]].kind = "optionalOr") =>
                       LET o    == children(c)[1]
                           ends == {i} \cup {s.span.end : s \in Results(<<children(o)[1], i>>)}
                       IN  /\ SecondChildAt(c, i) = ends
                           /\ \A pos \in ends : cache[<<children(c)[2], pos>>].active

\* a sequence over an optional whose child matched: the next parser ran at both ends
C6_Witness ==
    /\ pc = "done"
    /\ \E key \in Activations("chain") \cup Activations("seq") :
          /\ Len(children(key[1])) >= 2
          /\ G[children(key[1])[1]].kind = "optionalOr"
          /\ Cardinality(SecondChildAt(key[1], key[2])) = 2
          /\ \A pos \in SecondChildAt(key[1], key[2]) : cache[<<children(key[1])[2], pos>>].active

(* C7: check(P) succeeds exactly when P succeeds; every Success of         *)
(* check(P) at i has span (i, i) and P's value; a Failure of P passes      *)
(* through unchanged.                                                      *)
C7_CheckZeroWidth ==
    /\ \A e \in HandlerEvents("check") :
          LET ev == trace[e]
          IN  IF IsSuccess(ev.m)
              THEN ev.out = <<MatchSuccess(Span(ev.index, ev.index), ev.m.value)>>
              ELSE ev.out = <<ev.m>>
    /\ pc = "done" =>
          /\ \A key \in Activations("check") :
                (Results(key) # {}) <=> Succeeds(children(key[1])[1], key[2])
          /\ G[root].kind = "check" =>
                /\ IsSuccess(ExecuteResult) <=> Succeeds(children(root)[1], 0)
                /\ IsSuccess(ExecuteResult) => ExecuteResult.span = Span(0, 0)

\* execute on check(P) returned a zero-width Success where P matched text
C7_Witness ==
    /\ pc = "done"
    /\ G[root].kind = "check"
    /\ IsSuccess(ExecuteResult)
    /\ \E m \in Emitted(children(root)[1], 0) : IsSuccess(m) /\ m.span.end > 0 /\ m.value = ExecuteResult.value

(* C8: exactly one of not(P) and P succeeds at i: not(P) yields Success    *)
(* (i, i) with value null when P fails at i, a Failure at i naming the not *)
(* parser when P succeeds at i, and never a Success together with P's.     *)
C8_NotExactlyOne ==
    /\ \A e \in HandlerEvents("not") :
          LET ev == trace[e]
          IN  IF IsSuccess(ev.m)
              THEN ev.out = <<MatchFailure(Span(ev.index, ev.index), <<"Expected">> \o description(ev.p))>>
              ELSE ev.out = <<MatchSuccess(Span(ev.index, ev.index), Null)>>
    /\ pc = "done" =>
          \A key \in Activations("not") :
             Succeeds(key[1], key[2]) <=> ~Succeeds(children(key[1])[1], key[2])

----------------------------------------------------------------------------
\* the text from index on, as far as anyAB matches it: all of it
Take(c, index) == SubSeq(text, index + 1, index + c)

RepeatsOverAny == {p \in Parsers : G[p].kind = "repeat" /\ ~G[p].hasMax /\ children(p) = <<"anyAB">>}
RepeatsOverA == {p \in Parsers : G[p].kind = "repeat" /\ ~G[p].hasMax /\ children(p) = <<"A">>}

RECURSIVE RunOfA(_)
RunOfA(index) ==
    IF index < Len(text) /\ text[index + 1] = "a" THEN 1 + RunOfA(index + 1) ELSE 0

(* C9: repeat(P, {min: m}) at i, where P matches non-zero width k times in *)
(* a row, produces a Success for every count c in [m, k], with span        *)
(* (i, end of the c-th match) and the first c child values in order, and   *)
(* none for a count below m.                                               *)
C9_RepeatEveryCount ==
    pc = "done" =>
       \A key \in Activations("repeat") :
          LET p == key[1]
              i == key[2]
              got == {m \in Emitted(p, i) : IsSuccess(m)}
          IN  /\ p \in RepeatsOverAny =>
                    got = {MatchSuccess(Span(i, i + c), ListOf(Take(c, i))) :
                              c \in G[p].min..(Len(text) - i)}
              /\ p \in RepeatsOverA =>
                    got = {MatchSuccess(Span(i, i + c), ListOf([k \in 1..c |-> "a"])) :
                              c \in G[p].min..RunOfA(i)}

\* repeat with min 2 over three matches: the counts 2 and 3, with different values
C9_Witness ==
    /\ pc = "done"
    /\ root = "repAny2"
    /\ Len(text) = 3
    /\ \E k \in 1..2 : text[k] # text[k + 1]
    /\ {rootResults[k] : k \in 1..Len(rootResults)} =
          {MatchSuccess(Span(0, 2), ListOf(Take(2, 0))), MatchSuccess(Span(0, 3), ListOf(Take(3, 0)))}

RepeatsWithMax == {p \in Parsers : G[p].kind = "repeat" /\ G[p].hasMax}

(* C10: with min >= 0 and max >= 0 given, every Success of repeat holds    *)
(* between min and max child values, and the child is never scheduled once *)
(* the count has reached max; max is infinity only when omitted.           *)
C10_RepeatWithinMinMax ==
    /\ \A key \in Activations("repeat") :
          key[1] \in RepeatsWithMax =>
             \A m \in Emitted(key[1], key[2]) :
                IsSuccess(m) => ListLen(m.value) \in RepeatMin(key[1])..G[key[1]].max
    /\ \A e \in Events : \A k \in 1..Len(trace[e].out) :
          LET it == trace[e].out[k]
          IN  (IsSchedule(it) /\ it.handler.k = "repeat" /\ it.handler.p \in RepeatsWithMax) =>
                 it.handler.n < G[it.handler.p].max


----------------------------------------------------------------------------
\* the handler calls of repeat that were handed a zero-width Success
ZeroWidthRepeats ==
    {e \in HandlerEvents("repeat") :
        IsSuccess(trace[e].m) /\ trace[e].m.span.start = trace[e].m.span.end}

(* C11: when the child of a repeat delivers a zero-width Success, the      *)
(* repeat throws "isn't making progress" and the parse is aborted: no      *)
(* Success or Failure is made of it and the child is not scheduled again.  *)
C11_RepeatNoProgressAborts ==
    /\ \A e \in ZeroWidthRepeats :
          /\ error = "no progress"
          /\ pc = "aborted"
          /\ trace[e].out = <<>>
          /\ e = Len(trace)
    /\ error # "" => ZeroWidthRepeats # {}

\* a repeat over an optional was handed the optional's empty match and aborted
C11_Witness ==
    /\ pc = "aborted"
    /\ root = "repOpt"
    /\ ZeroWidthRepeats # {}
    /\ rootResults = <<>>


----------------------------------------------------------------------------
\* the left fold of n matches of "a" under the pairing combiner
RECURSIVE LeftFold(_)
LeftFold(n) ==
    IF n <= 1 THEN <<"a">> ELSE combiner("pair", LeftFold(n - 1), <<"a">>)

\* the left-recursive grammar P = alt(chain(P, a), a) has drained, with one
\* Success of P for every prefix of the leading run of a's
LeftRecursionDone ==
    /\ pc = "done"
    /\ queue = <<>>
    /\ {m \in Results(<<"lrP", 0>>) : IsSuccess(m)} =
           {MatchSuccess(Span(0, n), LeftFold(n)) : n \in 1..RunOfA(0)}
    /\ \A m \in Emitted("lrP", 0) : IsSuccess(m) => m \in Results(<<"lrP", 0>>)
    /\ Len(cache[<<"lrP", 0>>].waiters) = 2

(* C12: for the left-recursive P = alt(chain(P, a), a) the drain loop      *)
(* terminates with the queue empty for good, and P has a Success ending at *)
(* every position 1..k of the leading a's, built as a left fold; the left  *)
(* self-call is a waiter on the (P, 0) cache entry.                        *)
C12_LeftRecursionTerminates ==
    /\ (root = "lrP") ~> LeftRecursionDone
    /\ [](root = "lrP" /\ pc = "done" => [](queue = <<>>))

\* on "aaa" the parse ended with the three left-nested Successes
C12_Witness ==
    /\ root = "lrP"
    /\ text = <<"a", "a", "a">>
    /\ LeftRecursionDone
    /\ Len(rootResults) = 3


----------------------------------------------------------------------------
\* the Failures the activation (p, index) has produced
FailuresOf(p, index) == {m \in Emitted(p, index) : IsFailure(m)}

\* the handler calls of chain that were handed a Failure
ChainFailureEvents ==
    {e \in HandlerEvents("chain1") \cup HandlerEvents("chain2") : IsFailure(trace[e].m)}

(* C13: in chain(p1, p2, combiner) at i a Failure of p1 and a Failure of   *)
(* p2 are each passed through unchanged: the chain's Failure is the        *)
(* child's own, at the child's failure position with the child's message,  *)
(* and the combiner is not called for it.                                  *)
C13_ChainPassesFailures ==
    /\ \A e \in ChainFailureEvents :
          LET ev == trace[e]
          IN  /\ ev.out = <<ev.m>>
              /\ ev.h.k = "chain1" => ev.m \in FailuresOf(children(ev.p)[1], ev.index)
              /\ ev.h.k = "chain2" => ev.m \in FailuresOf(children(ev.p)[2], ev.h.span.end)
    /\ \A key \in ChainKeys :
          FailuresOf(key[1], key[2]) =
              {trace[e].m : e \in {x \in ChainFailureEvents :
                                      trace[x].p = key[1] /\ trace[x].index = key[2]}}

\* "a" then "b" on the input "a": the parse fails at 1 with the message of
\* the second child
C13_Witness ==
    /\ pc = "done"
    /\ root = "cAB"
    /\ text = <<"a">>
    /\ ExecuteResult = MatchFailure(Span(1, 1), Expected("B"))
    /\ \E e \in HandlerEvents("chain2") : trace[e].m = ExecuteResult /\ trace[e].out = <<ExecuteResult>>


----------------------------------------------------------------------------
SeqKeys == {key \in Keys : G[key[1]].kind = "seq" /\ cache[key].active}

\* the Successes of seq p started at start, from child k on at pos with the
\* values rv so far: one for each way the remaining children succeed in a row
RECURSIVE SeqWays(_, _, _, _, _)
SeqWays(p, k, start, pos, rv) ==
    IF k > Len(children(p)) THEN {MatchSuccess(Span(start, pos), ListOf(rv))}
    ELSE UNION {SeqWays(p, k + 1, start, m.span.end, rv \o m.value) :
                   m \in {x \in Emitted(children(p)[k], pos) : IsSuccess(x)}}

\* the seq2 parsers over the same two children as the seq p
Seq2Of(p) ==
    {c \in Parsers : G[c].kind = "chain" /\ G[c].comb = "pair" /\ children(c) = children(p)}

----------------------------------------------------------------------------
\* the activations of chain(check(P), P, (_, v) => v)
CheckThenSame ==
    {key \in ChainKeys :
        /\ G[key[1]].comb = "snd"
        /\ G[children(key[1])[1]].kind = "check"
        /\ children(children(key[1])[1]) = <<children(key[1])[2]>>}

\* the Successes the activation (p, index) has produced
SuccessesOf(p, index) == {m \in Emitted(p, index) : IsSuccess(m)}

(* C15: chain(check(P), P, (_, v) => v) is observationally equivalent to   *)
(* P: started at the same position it has the same Successes, span and     *)
(* value, so it succeeds on exactly the inputs on which P succeeds, and    *)
(* where P has no Success it fails exactly if P fails, with a Failure of   *)
(* P, so it fails on exactly the inputs on which P fails.                  *)
C15_CheckThenSameIsSame ==
    pc = "done" =>
        \A key \in CheckThenSame :
            LET P == children(key[1])[2]
            IN  /\ SuccessesOf(key[1], key[2]) = SuccessesOf(P, key[2])
                /\ SuccessesOf(P, key[2]) = {} =>
                       /\ FailuresOf(key[1], key[2]) \subseteq FailuresOf(P, key[2])
                       /\ FailuresOf(key[1], key[2]) = {} <=> FailuresOf(P, key[2]) = {}

\* on "ab" the alternation of "a" and "ab" behind its own check gave the two
\* Successes of the alternation itself
C15_Witness ==
    /\ pc = "done"
    /\ root = "ccAlt"
    /\ text = <<"a", "b">>
    /\ SuccessesOf("ccAlt", 0) = {MatchSuccess(Span(0, 1), <<"a">>), MatchSuccess(Span(0, 2), <<"ab">>)}
    /\ SuccessesOf("altAAB", 0) = SuccessesOf("ccAlt", 0)


----------------------------------------------------------------------------
\* the Successes each cached activation holds, and those the root was handed
SuccessSets(c) == [key \in Keys |-> {c[key].results[k] : k \in 1..Len(c[key].results)}]
AsSet(seq) == {seq[k] : k \in 1..Len(seq)}

SameSuccesses(st) ==
    /\ st.error = ""
    /\ SuccessSets(cache) = SuccessSets(st.cache)
    /\ AsSet(rootResults) = AsSet(st.rootResults)

(* C16: for every cacheable parser P and position i the set of Successes   *)
(* delivered for (P, i) is the same whatever the order in which the        *)
(* pending activations are dequeued, also for alt, whose failure counter   *)
(* is shared by the handlers of all its children: a finished parse that    *)
(* took the jobs in any order holds the Successes of the in-order parse.   *)
C16_OrderIndependentSuccesses ==
    pc = "done" => SameSuccesses(InOrder(StartState))

\* a parse of "ab" by an alternation ended after its second-listed child
\* was run before its first-listed one
C16_Witness ==
    /\ pc = "done"
    /\ root = "altAAB"
    /\ text = <<"a", "b">>
    /\ rootResults = <<MatchSuccess(Span(0, 2), <<"ab">>), MatchSuccess(Span(0, 1), <<"a">>)>>


----------------------------------------------------------------------------
ActiveKeys == {key \in Keys : cache[key].active}

\* the times the entry `key` has handed the match m to its w-th waiter
Notified(key, w, m) ==
    {e \in Events : /\ trace[e].ev = "notify"
                    /\ trace[e].p = key[1] /\ trace[e].index = key[2]
                    /\ trace[e].h.n = w /\ trace[e].m = m}

\* the Successes the entry `key` has handed out, to whomever
SuccessNotifications(key) ==
    {e \in Events : /\ trace[e].ev = "notify"
                    /\ trace[e].p = key[1] /\ trace[e].index = key[2]
                    /\ IsSuccess(trace[e].m)}

\* the times the activation `key` has produced the match m
Productions(key, m) ==
    {<<e, k>> \in Events \X (1..2) :
        /\ trace[e].p = key[1] /\ trace[e].index = key[2]
        /\ k <= Len(trace[e].out) /\ trace[e].out[k] = m}

(* C17: in the cache entry of a cacheable (parser, index), a Success added *)
(* to results is delivered exactly once to every waiter, registered before *)
(* or after it was added, and a Success whose (end, value) is already in   *)
(* results is discarded and delivered to no one.                           *)
C17_SuccessOncePerWaiter ==
    \A key \in ActiveKeys :
        LET e == cache[key]
        IN  /\ \A j, k \in 1..Len(e.results) :
                  e.results[j].span.end = e.results[k].span.end /\ e.results[j].value = e.results[k].value
                      => j = k
            /\ \A k \in 1..Len(e.results) : \A w \in 1..Len(e.waiters) :
                  Cardinality(Notified(key, w, e.results[k])) = 1
            /\ Cardinality(SuccessNotifications(key)) = Len(e.results) * Len(e.waiters)
            /\ pc = "done" =>
                  \A k \in 1..Len(e.results) : \A w \in 1..Len(e.waiters) :
                      \E x \in Events : /\ trace[x].ev = "handler"
                                        /\ trace[x].h = Head(e.waiters[w].cont)
                                        /\ trace[x].m = e.results[k]

\* alt("a", "a") on "a": the second child call is a late waiter of the entry
\* of "a" and is handed its Success; the alternation produces that Success
\* twice and hands it to its one waiter once
C17_Witness ==
    LET m == MatchSuccess(Span(0, 1), <<"a">>)
    IN  /\ pc = "done"
        /\ root = "altAA"
        /\ Len(cache[<<"A", 0>>].waiters) = 2
        /\ \E e1 \in Notified(<<"A", 0>>, 1, m) : \E e2 \in Notified(<<"A", 0>>, 2, m) :
              \E x \in MatcherEvents("lit") : e1 < e2 /\ e1 > x
        /\ Cardinality(Productions(<<"altAA", 0>>, m)) = 2
        /\ Cardinality(SuccessNotifications(<<"altAA", 0>>)) = 1
        /\ rootResults = <<m>>


----------------------------------------------------------------------------
\* the Failures the entry `key` has handed to its w-th waiter
FailureNotifications(key, w) ==
    {e \in Events : /\ trace[e].ev = "notify"
                    /\ trace[e].p = key[1] /\ trace[e].index = key[2]
                    /\ trace[e].h.n = w /\ IsFailure(trace[e].m)}

\* this step hands a Failure to a waiter
FailureHandedOver ==
    \E e \in (Len(trace) + 1)..Len(trace') : trace'[e].ev = "notify" /\ IsFailure(trace'[e].m)

\* this step retains a Failure in the entry `key`
FailureRetained(key) == cache[key].failure = <<>> /\ cache'[key].failure # <<>>

\* a Failure goes to waiters only from a drained queue, and is retained only
\* by an entry without Successes
FailuresWaitForDrain ==
    /\ FailureHandedOver => queue = <<>>
    /\ \A key \in Keys : FailureRetained(key) => cache'[key].results = <<>>

\* at the end every waiter of an entry that failed without a Success has
\* had the failure exactly once
FailedEntriesSwept ==
    pc = "done" =>
        \A key \in ActiveKeys :
            cache[key].results = <<>> /\ cache[key].failure # <<>> =>
                \A w \in 1..Len(cache[key].waiters) :
                    /\ Cardinality(FailureNotifications(key, w)) = 1
                    /\ \A e \in FailureNotifications(key, w) : trace[e].m = cache[key].failure[1]

\* no waiter of an entry with a Success has had a failure from it
SucceededEntriesSilent ==
    \A key \in ActiveKeys :
        cache[key].results # <<>> =>
            \A w \in 1..Len(cache[key].waiters) : FailureNotifications(key, w) = {}

(* C18: a Failure of a cached (parser, index) is never delivered to a      *)
(* waiter while the queue is non-empty and is retained only if the entry   *)
(* has no Successes; when the queue drains every waiter of an entry        *)
(* without Successes receives the failure exactly once, while waiters of   *)
(* an entry that has at least one Success never receive a failure.         *)
C18_FailuresOnlyAtDrain ==
    /\ [][FailuresWaitForDrain]_vars
    /\ [](FailedEntriesSwept /\ SucceededEntriesSilent)


----------------------------------------------------------------------------
\* the handler calls of repeat that were handed a Failure of the child
RepeatFailureEvents == {e \in HandlerEvents("repeat") : IsFailure(trace[e].m)}

(* C19: in repeat(p, {min, max}) at i, when the child fails after count    *)
(* matches: if count < min the repeat emits a single Failure with span     *)
(* (i, start of the child's failure) and the message "Expected " + the     *)
(* repeat's description; if count >= min it emits nothing and the Success  *)
(* already emitted for that count stands.                                  *)
C19_RepeatChildFailure ==
    \A e \in RepeatFailureEvents :
        LET ev == trace[e]
            count == ev.h.n
        IN  IF count < G[ev.p].min
            THEN ev.out = <<MatchFailure(Span(ev.index, ev.m.span.start),
                                         <<"Expected">> \o description(ev.p))>>
            ELSE /\ ev.out = <<>>
                 /\ \E s \in SuccessesOf(ev.p, ev.index) :
                        s.value = ListOf(ev.h.v) /\ ListLen(s.value) = count

\* at least two "a" on "ab": the child fails at 1 after one match and the
\* parse fails with the span (0, 1)
C19_Witness ==
    /\ pc = "done"
    /\ root = "rep2"
    /\ text = <<"a", "b">>
    /\ ExecuteResult = MatchFailure(Span(0, 1), Expected("rep2"))
    /\ \E e \in RepeatFailureEvents : trace[e].h.n = 1 /\ trace[e].out = <<ExecuteResult>>


----------------------------------------------------------------------------
Min(a, b) == IF a < b THEN a ELSE b
Max(a, b) == IF a > b THEN a ELSE b

(* C20: for all spans s1 and s2, each with start <= end, mergeSpan(s1, s2) *)
(* is the covering span (min(s1.start, s2.start), max(s1.end, s2.end)).    *)
C20_MergeSpanCovers ==
    call.fn = "mergeSpan" /\ call.result # <<>> =>
        LET s1 == call.args[1]
            s2 == call.args[2]
        IN  call.result[1] = Span(Min(s1.start, s2.start), Max(s1.end, s2.end))


----------------------------------------------------------------------------
\* the Failures made or passed on so far, each with the call that returned it
ProducedFailures ==
    {<<e, k>> \in Events \X (1..2) :
        k <= Len(trace[e].out) /\ IsFailure(trace[e].out[k])}

\* the call e returned a Failure that an earlier call had returned before
PassedOn(e, f) ==
    \E x \in 1..(e - 1) : \E k \in 1..Len(trace[x].out) : trace[x].out[k] = f

\* the call e is a repeat handed a Failure of its child
RepeatMade(e, f) ==
    /\ e \in RepeatFailureEvents
    /\ f.span = Span(trace[e].index, trace[e].m.span.start)

\* every Failure of the parse is zero-width
C21_FailuresZeroWidth ==
    \A x \in ProducedFailures :
        trace[x[1]].out[x[2]].span.start = trace[x[1]].out[x[2]].span.end

(* C21: every Failure of a parse has span.start <= span.end; one that a    *)
(* leaf, fail(), alt or not makes has span.start == span.end == the        *)
(* position the parser was started at; one that repeat makes has the span  *)
(* (i, start of the child's Failure), i being where the repeat started;    *)
(* chain, seq, alt, optionalOr and check pass Failures on unchanged, so a  *)
(* Failure wider than zero is always one a repeat made.                    *)
C21_FailureSpans ==
    \A x \in ProducedFailures :
        LET e == x[1]
            f == trace[e].out[x[2]]
        IN  /\ f.span.start <= f.span.end
            /\ \/ RepeatMade(e, f)
               \/ PassedOn(e, f)
               \/ f.span = Span(trace[e].index, trace[e].index)
            /\ trace[e].ev = "handler" /\ trace[e].h.k \in {"chain1", "chain2", "seq", "defer", "check"}
                  => f = trace[e].m
            /\ f.span.start < f.span.end =>
                  \E r \in RepeatFailureEvents : r <= e /\ trace[r].out = <<f>>

\* at least two of "a" or "b" on "a": the alternation fails at 1 with a
\* zero-width Failure and the repeat, after one match, fails with span (0, 1)
C21_Witness ==
    /\ pc = "done"
    /\ root = "repAny2"
    /\ text = <<"a">>
    /\ bestFailure # <<>> /\ bestFailure[1].span = Span(0, 1)
    /\ \E e \in RepeatFailureEvents :
          trace[e].m.span = Span(1, 1) /\ trace[e].out = bestFailure


----------------------------------------------------------------------------
\* the positions in [from, to) at which the text holds a linefeed
Linefeeds(txt, from, to) == {q \in from..(to - 1) : charAt(txt, q) = "\n"}

Last(q) == q[Len(q)]

SetMax(S) == CHOOSE x \in S : \A y \in S : y <= x

\* the properties of an object other than the named ones are those of s
SameBut(r, s, names) ==
    /\ (DOMAIN s) \ names \subseteq DOMAIN r
    /\ \A k \in (DOMAIN s) \ names : r[k] = s[k]

\* s.advance(n) leaves s as it was and returns the state n characters on
AdvanceReturns ==
    call.fn = "advance" =>
        LET s == call.args[1]
            n == call.args[2]
            r == call.result[1]
            lfs == Linefeeds(s.text, s.pos, s.pos + n)
        IN  /\ call.result[2] = s
            /\ r.pos = s.pos + n
            /\ r.lineno = s.lineno + Cardinality(lfs)
            /\ r.xpos = IF lfs = {} THEN s.xpos + n ELSE s.pos + n - (SetMax(lfs) + 1)
            /\ r.oldpos = <<s.pos, s.xpos, s.lineno>>
            /\ SameBut(r, s, {"pos", "lineno", "xpos", "oldpos"})

\* s.advance(n).flip() is back at s, with the advanced position as its end
FlipCovers ==
    call.fn = "flip" /\ Last(trace).fn = "advance" =>
        LET s == Last(trace).args[1]
            n == Last(trace).args[2]
            a == Last(trace).result[1]
            f == call.result[1]
        IN  /\ call.args[1] = a
            /\ call.result[2] = a
            /\ f.pos = s.pos /\ f.xpos = s.xpos /\ f.lineno = s.lineno
            /\ f.endpos = s.pos + n
            /\ f.endxpos = a.xpos /\ f.endlineno = a.lineno
            /\ f.pos <= f.endpos

(* C22: for any ParserState s and n >= 0, s.advance(n) leaves s unchanged  *)
(* and returns a new state whose pos is s.pos + n, whose lineno is s.lineno *)
(* plus the number of linefeeds in text[s.pos .. s.pos+n), whose xpos      *)
(* counts the characters since the last of those linefeeds (s.xpos + n     *)
(* when there is none) and whose oldpos is s's (pos, xpos, lineno); so     *)
(* s.advance(n).flip() has pos = s.pos and endpos = s.pos + n.             *)
C22_AdvanceThenFlip == AdvanceReturns /\ FlipCovers

\* a state already advanced to 1 with xpos 1 is advanced by 2 over a
\* linefeed and then flipped
C22_Witness ==
    /\ call.fn = "flip"
    /\ Len(trace) = 3
    /\ trace[3].fn = "advance"
    /\ trace[3].args[1].text = <<"a", "\n">>
    /\ trace[3].args[1].pos = 1 /\ trace[3].args[1].xpos = 1
    /\ trace[3].args[2] = 2
    /\ trace[3].result[1].lineno = 1 /\ trace[3].result[1].xpos = 1
    /\ call.result[1].pos = 1 /\ call.result[1].endpos = 3


====
